---- MODULE Spec2Model ----
(***************************************************************************)
(* Model of usr.sbin/rpki-client/spl.c: the Signed Prefix List parser, the *)
(* SPL wire codec and the merge of SPLs into the tree of Validated SPLs.   *)
(***************************************************************************)
EXTENDS Integers, Sequences, FiniteSets, TLC

(***************************************************************************)
(* Bounds of the model.                                                    *)
(***************************************************************************)
MaxMerges == 2       \* spl_insert_vsps calls in a run of SpecMerge
MaxOwners == 3       \* spl_insert_vsps calls in a run of SpecMeta
MaxBlocks == 3       \* AddressFamilyPrefixes blocks in one eContent
MaxBlockLen == 2     \* addressPrefixes in one block
MaxObjects == 3      \* objects handed to spl_parse in one run
MAX_IP_SIZE == 4     \* the ceiling of spl.c:181, scaled down

(***************************************************************************)
(* enum afi, and the NULL pointer.                                         *)
(***************************************************************************)
AFI_IPV4 == 1
AFI_IPV6 == 2
NULL == [null |-> TRUE]

\* a NUL-terminated C string, as the bytes before the NUL
Str(bytes) == [bytes |-> bytes]

(***************************************************************************)
(* struct ip_addr: 16 address bytes and a prefix length.  An IPv4 address  *)
(* fills the first four bytes, the rest is zero.                           *)
(***************************************************************************)
Z12 == <<0, 0, 0, 0, 0, 0, 0, 0, 0, 0, 0, 0>>
ip4(a, b, c, d, len) == [addr |-> <<a, b, c, d>> \o Z12, prefixlen |-> len]
ip6(tail, len) == [addr |-> <<32, 1, 13, 184>> \o tail, prefixlen |-> len]

V4_10_8 == ip4(10, 0, 0, 0, 8)
V4_10_16 == ip4(10, 0, 0, 0, 16)
V4_10_1_16 == ip4(10, 1, 0, 0, 16)
V4_10_2_16 == ip4(10, 2, 0, 0, 16)
V6_DB8_32 == ip6(Z12, 32)
V6_DB8_1_48 == ip6(<<0, 0, 0, 1, 0, 0, 0, 0, 0, 0, 0, 0>>, 48)

\* struct spl_pfx
spl_pfx(afi, ip) == [afi |-> afi, prefix |-> ip]

(***************************************************************************)
(* memcmp(a, b, n) over the first n bytes: unsigned, lexicographic.        *)
(***************************************************************************)
RECURSIVE memcmp_from(_, _, _, _)
memcmp_from(a, b, k, n) ==
    IF k > n THEN 0
    ELSE IF a[k] # b[k] THEN a[k] - b[k]
    ELSE memcmp_from(a, b, k + 1, n)

memcmp(a, b, n) == memcmp_from(a, b, 1, n)

prefix_cmp(afi, a, b) ==
    LET n == IF afi = AFI_IPV4 THEN 4 ELSE IF afi = AFI_IPV6 THEN 16 ELSE 0
        cmp == memcmp(a.addr, b.addr, n)
    IN  IF cmp < 0 THEN -1
        ELSE IF cmp > 0 THEN 1
        ELSE IF a.prefixlen < b.prefixlen THEN -1
        ELSE IF a.prefixlen > b.prefixlen THEN 1
        ELSE 0

spl_pfx_cmp(a, b) ==
    IF a.afi > b.afi THEN 1
    ELSE IF a.afi < b.afi THEN -1
    ELSE prefix_cmp(a.afi, a.prefix, b.prefix)

\* a list of struct spl_pfx is strictly increasing under spl_pfx_cmp
StrictlyIncreasing(s) ==
    \A k \in 1..(Len(s) - 1) : spl_pfx_cmp(s[k], s[k + 1]) = -1

\* every IPv4 entry of the list precedes every IPv6 entry
Grouped(s) ==
    \A k, l \in 1..Len(s) :
        (s[k].afi = AFI_IPV4 /\ s[l].afi = AFI_IPV6) => k < l

Range(s) == {s[k] : k \in 1..Len(s)}


(***************************************************************************)
(* State.                                                                  *)
(*   tree    the vsp_tree: the set of struct vsp it holds                   *)
(*   stats   the repository statistics sink: events counted per            *)
(*           (repository id, trust anchor id, stat type)                   *)
(*   call    the arguments and the walk of the latest spl_insert_vsps      *)
(*   hist    the (asid, talid, repoid, expires) of every object merged     *)
(*   ncalls  the number of spl_insert_vsps calls made                      *)
(*   pin     the input of the latest spl_parse                             *)
(*   parsed  the struct spl the latest spl_parse returned, or NULL         *)
(*   accum   prefixes accepted by all spl_parse calls so far               *)
(*   nparsed the number of spl_parse calls made                            *)
(*   sent    the struct spl handed to spl_buffer                           *)
(*   ibuf    the struct ibuf between spl_buffer and spl_read               *)
(*   rcvd    the struct spl spl_read returned                              *)
(***************************************************************************)
VARIABLES tree, stats, call, hist, ncalls,
          pin, parsed, accum, nparsed,
          sent, ibuf, rcvd

vars == <<tree, stats, call, hist, ncalls,
          pin, parsed, accum, nparsed, sent, ibuf, rcvd>>
vspVars == <<tree, stats, call, hist, ncalls>>
parseVars == <<pin, parsed, accum, nparsed>>
codecVars == <<sent, ibuf, rcvd>>

(***************************************************************************)
(* Repositories and the statistics sink (repo.c).                          *)
(***************************************************************************)
Repos == {[id |-> 1], [id |-> 2]}
TalIds == {1, 2}
STYPE_TOTAL == "total"
STYPE_UNIQUE == "unique"
STYPE_DEC_UNIQUE == "dec_unique"
Stypes == {STYPE_TOTAL, STYPE_UNIQUE, STYPE_DEC_UNIQUE}

repo_id(rp) == rp.id

repo_byid(id) ==
    IF \E r \in Repos : r.id = id THEN CHOOSE r \in Repos : r.id = id ELSE NULL

StatKey(rp, talid, stype) == <<IF rp = NULL THEN 0 ELSE rp.id, talid, stype>>
StatKeys == (0..2) \X TalIds \X Stypes

repo_stat_inc(st, rp, talid, stype) ==
    [st EXCEPT ![StatKey(rp, talid, stype)] = @ + 1]

RECURSIVE SumOver(_, _)
SumOver(st, keys) ==
    IF keys = {} THEN 0
    ELSE LET k == CHOOSE x \in keys : TRUE
         IN  st[k] + SumOver(st, keys \ {k})

\* the number of events of one stat type the sink has received
Events(stype) == SumOver(stats, {k \in StatKeys : k[3] = stype})

(***************************************************************************)
(* The vsp_tree.                                                           *)
(***************************************************************************)
vspcmp(a, b) ==
    IF a.asid > b.asid THEN 1
    ELSE IF a.asid < b.asid THEN -1
    ELSE 0

\* RB_INSERT: the element already in the tree that compares equal, or NULL
RB_INSERT(t, vsp) ==
    IF \E e \in t : vspcmp(vsp, e) = 0
    THEN CHOOSE e \in t : vspcmp(vsp, e) = 0
    ELSE NULL

\* an array slot that has been allocated and not yet written
Unset == [afi |-> 0, prefix |-> [addr |-> <<>>, prefixlen |-> 0]]

\* reallocarray(p, n): n slots, the first min(old, n) of them kept
reallocarray(p, n) ==
    [k \in 1..n |-> IF k <= Len(p) THEN p[k] ELSE Unset]

\* the entries a struct vsp holds: prefixes[0 .. prefixesz - 1]
Held(vsp) == SubSeq(vsp.prefixes, 1, vsp.prefixesz)

\* insert_vsp storing one slot too far
insert_vsp_after(vsp, idx, pfx) ==
    [vsp EXCEPT
        !.prefixes = [k \in 1..Len(vsp.prefixes) |->
            IF k = idx + 2 THEN pfx
            ELSE IF k > idx + 2 /\ k <= vsp.prefixesz + 1
                 THEN vsp.prefixes[k - 1]
            ELSE vsp.prefixes[k]],
        !.prefixesz = vsp.prefixesz + 1]

\* insert_vsp without the memmove of the tail
insert_vsp_noshift(vsp, idx, pfx) ==
    [vsp EXCEPT
        !.prefixes = [k \in 1..Len(vsp.prefixes) |->
            IF k = idx + 1 THEN pfx ELSE vsp.prefixes[k]],
        !.prefixesz = vsp.prefixesz + 1]

\* insert_vsp: memmove of the tail one slot up, store at idx, count up
\* (C index idx is slot idx + 1 here)
insert_vsp(vsp, idx, pfx) ==
    [vsp EXCEPT
        !.prefixes = [k \in 1..Len(vsp.prefixes) |->
            IF k = idx + 1 THEN pfx
            ELSE IF k > idx + 1 /\ k <= vsp.prefixesz + 1
                 THEN vsp.prefixes[k - 1]
            ELSE vsp.prefixes[k]],
        !.prefixesz = vsp.prefixesz + 1]

\* the writes of insert_vsp(vsp, idx, ...) stay inside the allocation
InsertInBounds(vsp, idx) ==
    /\ idx <= vsp.prefixesz
    /\ vsp.prefixesz + 1 <= Len(vsp.prefixes)

\* the candidate of spl.c:421-428
Candidate(spl, rp) ==
    [asid |-> spl.asid, talid |-> spl.talid, expires |-> spl.expires,
     repoid |-> IF rp # NULL THEN repo_id(rp) ELSE 0,
     prefixes |-> <<>>, prefixesz |-> 0]

\* the test of spl.c:432 with <= in place of <
Supersedes_le(found, vsp) == found.expires <= vsp.expires

\* spl.c:432
Supersedes(found, vsp) == found.expires < vsp.expires

\* spl.c:436-438
Adopt(found, vsp) ==
    [found EXCEPT !.expires = vsp.expires, !.talid = vsp.talid,
                  !.repoid = vsp.repoid]

\* the record the merge works on after spl.c:430-445
Target(found, vsp) ==
    IF found # NULL
    THEN IF Supersedes(found, vsp) THEN Adopt(found, vsp) ELSE found
    ELSE vsp

\* spl.c:430-446 without the STYPE_DEC_UNIQUE event
StatEvents_nodec(st, found, vsp, spl, rp) ==
    LET s1 == IF found # NULL
              THEN IF Supersedes(found, vsp)
                   THEN repo_stat_inc(st, rp, vsp.talid, STYPE_UNIQUE)
                   ELSE st
              ELSE repo_stat_inc(st, rp, vsp.talid, STYPE_UNIQUE)
    IN  repo_stat_inc(s1, rp, spl.talid, STYPE_TOTAL)

\* the statistics events of spl.c:430-446
StatEvents(st, found, vsp, spl, rp) ==
    LET s1 == IF found # NULL
              THEN IF Supersedes(found, vsp)
                   THEN repo_stat_inc(
                            repo_stat_inc(st, repo_byid(found.repoid),
                                found.talid, STYPE_DEC_UNIQUE),
                            rp, vsp.talid, STYPE_UNIQUE)
                   ELSE st
              ELSE repo_stat_inc(st, rp, vsp.talid, STYPE_UNIQUE)
    IN  repo_stat_inc(s1, rp, spl.talid, STYPE_TOTAL)

\* spl.c:449-450 reserving room for the incoming entries only
Reserve_incoming(vsp, spl) ==
    [vsp EXCEPT !.prefixes = reallocarray(vsp.prefixes, spl.pfxsz)]

\* spl.c:449-450
Reserve(vsp, spl) ==
    [vsp EXCEPT !.prefixes =
        reallocarray(vsp.prefixes, vsp.prefixesz + spl.pfxsz)]

(***************************************************************************)
(* The merge walk of spl.c:459-470.  A walk state is the record being      *)
(* merged into, the two indices, whether every access so far stayed inside *)
(* the allocation, the largest prefix count seen and the insert_vsp calls  *)
(* made.  An access outside the allocation ends the walk with ok = FALSE.  *)
(***************************************************************************)
WalkStart(vsp) ==
    [vsp |-> vsp, i |-> 0, j |-> 0, ok |-> TRUE, inserts |-> 0,
     shifts |-> 0]

\* spl.c:468-469
WalkAdvance(vsp, j) == IF j < vsp.prefixesz THEN j + 1 ELSE j

\* one iteration of the loop body, spl.c:460-469
WalkStep(w, spl) ==
    LET vsp == w.vsp
        atEnd == w.j = vsp.prefixesz
        readOk == w.j < vsp.prefixesz /\ w.j < Len(vsp.prefixes)
        cmp == IF atEnd THEN -1
               ELSE spl_pfx_cmp(spl.pfxs[w.i + 1], vsp.prefixes[w.j + 1])
    IN  IF ~atEnd /\ ~readOk
        THEN [w EXCEPT !.ok = FALSE]
        ELSE IF cmp < 0
        THEN IF InsertInBounds(vsp, w.j)
             THEN LET nv == insert_vsp(vsp, w.j, spl.pfxs[w.i + 1])
                  IN  [vsp |-> nv, i |-> w.i + 1, j |-> WalkAdvance(nv, w.j),
                       ok |-> TRUE, inserts |-> w.inserts + 1,
                       shifts |-> w.shifts +
                                  (IF w.j < vsp.prefixesz THEN 1 ELSE 0)]
             ELSE [w EXCEPT !.ok = FALSE]
        ELSE IF cmp = 0
        THEN [w EXCEPT !.i = w.i + 1, !.j = WalkAdvance(vsp, w.j)]
        ELSE [w EXCEPT !.j = WalkAdvance(vsp, w.j)]

RECURSIVE Walk(_, _)
Walk(w, spl) ==
    IF ~w.ok \/ ~(w.i < spl.pfxsz) THEN w ELSE Walk(WalkStep(w, spl), spl)

(***************************************************************************)
(* spl_insert_vsps(tree, spl, rp), spl.c:414-471.                          *)
(***************************************************************************)
spl_insert_vsps(spl, rp) ==
    /\ LET vsp == Candidate(spl, rp)
           found == RB_INSERT(tree, vsp)
           target == Target(found, vsp)
           w == Walk(WalkStart(Reserve(target, spl)), spl)
       IN  /\ tree' = (IF found # NULL THEN tree \ {found} ELSE tree)
                          \cup {w.vsp}
           /\ stats' = StatEvents(stats, found, vsp, spl, rp)
           /\ call' = [spl |-> spl, rp |-> rp, found |-> found,
                       cap |-> Len(w.vsp.prefixes), ok |-> w.ok,
                       inserts |-> w.inserts, shifts |-> w.shifts]
           /\ hist' = hist \cup {[asid |-> vsp.asid, talid |-> vsp.talid,
                                  repoid |-> vsp.repoid,
                                  expires |-> vsp.expires]}
           /\ ncalls' = ncalls + 1
    /\ UNCHANGED <<parseVars, codecVars>>

(***************************************************************************)
(* The SPLs handed to spl_insert_vsps: what spl_parse lets through, a      *)
(* prefix list that is strictly increasing under spl_pfx_cmp.              *)
(***************************************************************************)
MergePool == <<spl_pfx(AFI_IPV4, V4_10_8), spl_pfx(AFI_IPV4, V4_10_1_16),
               spl_pfx(AFI_IPV4, V4_10_2_16), spl_pfx(AFI_IPV6, V6_DB8_32)>>

RECURSIVE Pick(_, _, _)
Pick(pool, chosen, k) ==
    IF k > Len(pool) THEN <<>>
    ELSE (IF k \in chosen THEN <<pool[k]>> ELSE <<>>)
         \o Pick(pool, chosen, k + 1)

\* every sublist of the pool, in pool order
SubLists(pool) == {Pick(pool, c, 1) : c \in SUBSET (1..Len(pool))}

AsIds == {64496, 64497}
Expirations == {100, 200}

MkSpl(asid, talid, expires, pfxs) ==
    [asid |-> asid, talid |-> talid, expires |-> expires,
     pfxs |-> pfxs, pfxsz |-> Len(pfxs)]

NoCall == [spl |-> NULL, rp |-> NULL, found |-> NULL, cap |-> 0,
           ok |-> TRUE, inserts |-> 0, shifts |-> 0]

Init ==
    /\ tree = {}
    /\ stats = [k \in StatKeys |-> 0]
    /\ call = NoCall
    /\ hist = {}
    /\ ncalls = 0
    /\ pin = NULL
    /\ parsed = NULL
    /\ accum = 0
    /\ nparsed = 0
    /\ sent = NULL
    /\ ibuf = <<>>
    /\ rcvd = NULL

\* merges that differ in their prefix lists and expirations
InsertPrefixes ==
    /\ ncalls < MaxMerges
    /\ \E asid \in AsIds, expires \in Expirations,
          pfxs \in SubLists(MergePool) :
            spl_insert_vsps(MkSpl(asid, 1, expires, pfxs), NULL)

NextMerge == InsertPrefixes

SpecMerge == Init /\ [][NextMerge]_vars

\* merges that differ in the trust anchor, repository and expiration
Owners == {<<1, NULL>>, <<1, [id |-> 1]>>, <<2, [id |-> 2]>>}
OwnerLists == {<<spl_pfx(AFI_IPV4, V4_10_8)>>, <<spl_pfx(AFI_IPV6, V6_DB8_32)>>}

InsertOwners ==
    /\ ncalls < MaxOwners
    /\ \E asid \in AsIds, expires \in Expirations, o \in Owners,
          pfxs \in OwnerLists :
            spl_insert_vsps(MkSpl(asid, o[1], expires, pfxs), o[2])

NextMeta == InsertOwners

SpecMeta == Init /\ [][NextMeta]_vars

(***************************************************************************)
(* Properties of the merge.                                                *)
(***************************************************************************)
\* the record of the tree the latest call merged into
Merged == CHOOSE v \in tree : v.asid = call.spl.asid

\* the entries the record held before the latest call
HeldBefore == IF call.found = NULL THEN <<>> ELSE Held(call.found)

\* C1: every VSP record in the tree has a prefix list that is strictly
\* increasing under the grouped comparator, with every IPv4 entry before
\* every IPv6 entry and no two entries equal, after any sequence of merges
\* of SPLs whose own lists are strictly increasing.
C1_VspSorted ==
    \A v \in tree :
        /\ StrictlyIncreasing(Held(v))
        /\ Grouped(Held(v))
        /\ \A k, l \in 1..v.prefixesz :
               k # l => spl_pfx_cmp(v.prefixes[k], v.prefixes[l]) # 0

\* a merge into an existing record that shifted a tail and left a record
\* holding both families
C1_Witness ==
    /\ call.found # NULL
    /\ call.shifts > 0
    /\ \E v \in tree :
           /\ v.asid = call.spl.asid
           /\ v.prefixesz >= 3
           /\ \E k, l \in 1..v.prefixesz :
                  v.prefixes[k].afi = AFI_IPV4 /\ v.prefixes[l].afi = AFI_IPV6

\* C2: a merge leaves the record holding exactly what it held before plus
\* the incoming entries, each once, whether or not the incoming expiration
\* supersedes; merging content already held changes nothing.
C2_MergeIsUnion ==
    call.spl # NULL =>
        /\ Range(Held(Merged)) = Range(HeldBefore) \cup Range(call.spl.pfxs)
        /\ Merged.prefixesz =
               Cardinality(Range(HeldBefore) \cup Range(call.spl.pfxs))
        /\ (Range(call.spl.pfxs) \subseteq Range(HeldBefore)
               => Held(Merged) = HeldBefore)

\* an earlier-expiring object merged into a record, bringing one entry the
\* record held and one it did not
C2_Witness ==
    /\ call.spl # NULL
    /\ call.found # NULL
    /\ call.spl.expires < call.found.expires
    /\ \E p \in Range(call.spl.pfxs) : p \in Range(HeldBefore)
    /\ \E p \in Range(call.spl.pfxs) : p \notin Range(HeldBefore)
    /\ \E p \in Range(HeldBefore) : p \notin Range(call.spl.pfxs)

\* C10: every insert_vsp call of the walk has an index no greater than the
\* prefix count, and the prefix count never exceeds the capacity reserved
\* before the walk, the count before the merge plus the incoming count.
C10_WalkInBounds ==
    call.spl # NULL =>
        /\ call.ok
        /\ call.cap = Len(HeldBefore) + call.spl.pfxsz
        /\ Merged.prefixesz <= call.cap
        /\ Len(Merged.prefixes) = call.cap

\* a walk that shifted a tail and filled the reserved storage to the last
\* slot
C10_Witness ==
    /\ call.spl # NULL
    /\ call.found # NULL
    /\ call.shifts > 0
    /\ call.inserts >= 2
    /\ Merged.prefixesz = call.cap

(***************************************************************************)
(* Properties of the metadata and the statistics.                          *)
(***************************************************************************)
Meta(r) == [talid |-> r.talid, repoid |-> r.repoid, expires |-> r.expires]

\* the objects merged so far into the record of one AS id
MergedInto(asid) == {h \in hist : h.asid = asid}

\* C3: a record's trust anchor id, repository id and expiration are those
\* of a merged object with the latest expiration, in whatever order the
\* objects came; one merge replaces the three fields exactly when the
\* incoming expiration is strictly later than the record's, and otherwise
\* leaves all three as they were.
C3_LatestExpiryOwns ==
    /\ \A v \in tree :
           /\ \E h \in MergedInto(v.asid) : Meta(h) = Meta(v)
           /\ \A h \in MergedInto(v.asid) : h.expires <= v.expires
    /\ (call.spl # NULL /\ call.found # NULL) =>
           IF call.found.expires < call.spl.expires
           THEN Meta(Merged) = Meta(Candidate(call.spl, call.rp))
           ELSE Meta(Merged) = Meta(call.found)

\* the later-expiring object was merged first; the earlier-expiring one,
\* of another trust anchor and repository, is merged second
C3_Witness ==
    /\ call.spl # NULL
    /\ call.found # NULL
    /\ call.spl.expires < call.found.expires
    /\ call.spl.talid # call.found.talid
    /\ Candidate(call.spl, call.rp).repoid # call.found.repoid
    /\ \E v \in tree :
           /\ v.asid = call.spl.asid
           /\ v.prefixesz = 2
           /\ \E h \in MergedInto(v.asid) :
                  h.expires < v.expires /\ h.talid # v.talid

\* C4: after N calls whose SPLs carry K distinct AS ids the sink has
\* received N 'total' events, and K more 'unique' events than 'un-unique'
\* ones.
C4_StatCounts ==
    /\ Events(STYPE_TOTAL) = ncalls
    /\ Events(STYPE_UNIQUE) - Events(STYPE_DEC_UNIQUE)
           = Cardinality({h.asid : h \in hist})
    /\ Cardinality(tree) = Cardinality({h.asid : h \in hist})

\* three merges into two AS ids, one of them a supersede
C4_Witness ==
    /\ ncalls = 3
    /\ Cardinality({h.asid : h \in hist}) = 2
    /\ Events(STYPE_DEC_UNIQUE) = 1
    /\ Events(STYPE_UNIQUE) = 3

(***************************************************************************)
(* spl_parse_econtent, spl.c:127-238.  The decoded eContent is a record:   *)
(* what d2i_SignedPrefixList, valid_econtent_version and as_id_parse       *)
(* answered, and the prefixBlocks; a block carries what ip_addr_afi_parse  *)
(* answers for its addressFamily and, for each addressPrefix, what         *)
(* ip_addr_parse answers.                                                  *)
(***************************************************************************)
\* spl.c:164
TooManyBlocks(afpsz) == afpsz < 0 \/ afpsz > 2

\* the ceiling of spl.c:181 applied to each block on its own
OverCeiling_block(pfxsz, prefixesz) == prefixesz >= MAX_IP_SIZE

\* spl.c:181
OverCeiling(pfxsz, prefixesz) == pfxsz + prefixesz >= MAX_IP_SIZE

\* spl.c:189-208 without the test of spl.c:196
FamilyRejected_noorder(afi, ipv4_seen, ipv6_seen) ==
    IF afi = AFI_IPV4 THEN ipv4_seen > 0
    ELSE IF afi = AFI_IPV6 THEN ipv6_seen > 0
    ELSE FALSE

\* spl.c:189-208: the block's family was seen before, or IPv4 follows IPv6
FamilyRejected(afi, ipv4_seen, ipv6_seen) ==
    IF afi = AFI_IPV4 THEN ipv4_seen > 0 \/ ipv6_seen > 0
    ELSE IF afi = AFI_IPV6 THEN ipv6_seen > 0
    ELSE FALSE

\* the test of spl.c:222 letting an equal prefix through
OutOfOrder_eq(afi, prev, ip) == prefix_cmp(afi, prev, ip) = 1

\* spl.c:222
OutOfOrder(afi, prev, ip) == prefix_cmp(afi, prev, ip) # -1

\* the loop over one block's addressPrefixes, spl.c:215-231
RECURSIVE ParsePrefixes(_, _, _, _, _)
ParsePrefixes(pfxs, afi, encs, j, prev) ==
    IF j > Len(encs) THEN [rc |-> 1, pfxs |-> pfxs]
    ELSE IF ~encs[j].ok THEN [rc |-> 0, pfxs |-> pfxs]
    ELSE IF j > 1 /\ OutOfOrder(afi, prev, encs[j].ip)
    THEN [rc |-> 0, pfxs |-> pfxs]
    ELSE ParsePrefixes(Append(pfxs, spl_pfx(afi, encs[j].ip)), afi, encs,
                       j + 1, encs[j].ip)

\* the loop over the prefixBlocks, spl.c:170-232
RECURSIVE ParseBlocks(_, _, _, _, _)
ParseBlocks(pfxs, blocks, i, ipv4_seen, ipv6_seen) ==
    IF i > Len(blocks) THEN [rc |-> 1, pfxs |-> pfxs]
    ELSE LET afp == blocks[i]
             prefixesz == Len(afp.prefixes)
         IN  IF prefixesz = 0 THEN [rc |-> 0, pfxs |-> pfxs]
             ELSE IF OverCeiling(Len(pfxs), prefixesz)
             THEN [rc |-> 0, pfxs |-> pfxs]
             ELSE IF ~afp.afi_ok THEN [rc |-> 0, pfxs |-> pfxs]
             ELSE IF FamilyRejected(afp.afi, ipv4_seen, ipv6_seen)
             THEN [rc |-> 0, pfxs |-> pfxs]
             ELSE LET r == ParsePrefixes(pfxs, afp.afi, afp.prefixes, 1, NULL)
                  IN  IF r.rc = 0 THEN r
                      ELSE ParseBlocks(r.pfxs, blocks, i + 1,
                               ipv4_seen + (IF afp.afi = AFI_IPV4 THEN 1 ELSE 0),
                               ipv6_seen + (IF afp.afi = AFI_IPV6 THEN 1 ELSE 0))

\* returns rc and the struct spl as the function leaves it
spl_parse_econtent(spl, ec) ==
    IF ~ec.decode_ok \/ ec.trailing \/ ~ec.version_ok \/ ~ec.asid_ok
    THEN [rc |-> 0, spl |-> spl]
    ELSE LET s1 == [spl EXCEPT !.asid = ec.asid]
         IN  IF TooManyBlocks(Len(ec.blocks)) THEN [rc |-> 0, spl |-> s1]
             ELSE LET r == ParseBlocks(s1.pfxs, ec.blocks, 1, 0, 0)
                  IN  [rc |-> r.rc,
                       spl |-> [s1 EXCEPT !.pfxs = r.pfxs,
                                          !.pfxsz = Len(r.pfxs)]]

(***************************************************************************)
(* spl_parse, spl.c:244-321.  The input carries what cms_parse_validate,   *)
(* the x509_get_* extractors, x509_any_inherits, cert_parse_ee_cert and    *)
(* valid_spl answer for the object.                                        *)
(***************************************************************************)
\* calloc(1, sizeof(*spl)), spl.c:259
ZeroSpl ==
    [valid |-> 0, asid |-> 0, talid |-> 0, pfxs |-> <<>>, pfxsz |-> 0,
     expires |-> 0, signtime |-> 0, notbefore |-> 0, notafter |-> 0,
     aia |-> NULL, aki |-> NULL, sia |-> NULL, ski |-> NULL]

\* spl.c:308 storing TRUE whatever valid_spl answers
SetValid_always(spl, in) == [spl EXCEPT !.valid = 1]

\* spl.c:308
SetValid(spl, in) == [spl EXCEPT !.valid = in.valid_spl]

\* spl.c:271-272
MissingId(spl) ==
    spl.aia = NULL \/ spl.aki = NULL \/ spl.sia = NULL \/ spl.ski = NULL

\* the struct spl returned, or NULL
spl_parse(in) ==
    IF ~in.cms_ok THEN NULL
    ELSE LET s0 == [ZeroSpl EXCEPT !.signtime = in.signtime]
         IN
         IF ~in.aia.ok THEN NULL
         ELSE IF ~in.aki.ok THEN NULL
         ELSE IF ~in.sia.ok THEN NULL
         ELSE IF ~in.ski.ok THEN NULL
         ELSE LET s1 == [s0 EXCEPT !.aia = in.aia.val, !.aki = in.aki.val,
                                   !.sia = in.sia.val, !.ski = in.ski.val]
              IN
              IF MissingId(s1) THEN NULL
              ELSE IF ~in.notbefore.ok THEN NULL
              ELSE IF ~in.notafter.ok THEN NULL
              ELSE LET s2 == [s1 EXCEPT !.notbefore = in.notbefore.val,
                                        !.notafter = in.notafter.val]
                       e == spl_parse_econtent(s2, in.econtent)
                   IN
                   IF e.rc = 0 THEN NULL
                   ELSE IF in.inherits THEN NULL
                   ELSE IF in.cert = NULL THEN NULL
                   ELSE IF in.cert.asz = 0 THEN NULL
                   ELSE IF in.cert.ipsz > 0 THEN NULL
                   ELSE SetValid(e.spl, in)

\* one call of spl_parse on the object 'in'
spl_parse_call(in) ==
    /\ pin' = in
    /\ parsed' = spl_parse(in)
    /\ accum' = accum + (IF parsed' = NULL THEN 0 ELSE parsed'.pfxsz)
    /\ nparsed' = nparsed + 1
    /\ UNCHANGED <<vspVars, codecVars>>

(***************************************************************************)
(* The objects handed to spl_parse.                                        *)
(***************************************************************************)
Present(v) == [ok |-> TRUE, val |-> v]
Absent == [ok |-> TRUE, val |-> NULL]
Failed == [ok |-> FALSE, val |-> NULL]
Enc(ip) == [ok |-> TRUE, ip |-> ip]
BadEnc == [ok |-> FALSE, ip |-> V4_10_8]

\* an object every step accepts, carrying the given blocks
GoodObject(blocks, valid) ==
    [cms_ok |-> TRUE, signtime |-> 50,
     aia |-> Present(Str(<<114, 115, 121>>)), aki |-> Present(Str(<<65, 66>>)),
     sia |-> Present(Str(<<114, 115>>)), ski |-> Present(Str(<<67>>)),
     notbefore |-> Present(10), notafter |-> Present(100),
     econtent |-> [decode_ok |-> TRUE, trailing |-> FALSE,
                   version_ok |-> TRUE, asid_ok |-> TRUE, asid |-> 64496,
                   blocks |-> blocks],
     inherits |-> FALSE, cert |-> [asz |-> 1, ipsz |-> 0],
     valid_spl |-> valid]

Faults == {"none", "cms", "aia_err", "aia_absent", "aki_err", "aki_absent",
           "sia_err", "sia_absent", "ski_err", "ski_absent", "notbefore",
           "notafter", "d2i", "trailing", "version", "asid", "inherit",
           "cert", "asz", "ipsz"}

WithFault(in, f) ==
    CASE f = "none" -> in
      [] f = "cms" -> [in EXCEPT !.cms_ok = FALSE]
      [] f = "aia_err" -> [in EXCEPT !.aia = Failed]
      [] f = "aia_absent" -> [in EXCEPT !.aia = Absent]
      [] f = "aki_err" -> [in EXCEPT !.aki = Failed]
      [] f = "aki_absent" -> [in EXCEPT !.aki = Absent]
      [] f = "sia_err" -> [in EXCEPT !.sia = Failed]
      [] f = "sia_absent" -> [in EXCEPT !.sia = Absent]
      [] f = "ski_err" -> [in EXCEPT !.ski = Failed]
      [] f = "ski_absent" -> [in EXCEPT !.ski = Absent]
      [] f = "notbefore" -> [in EXCEPT !.notbefore = Failed]
      [] f = "notafter" -> [in EXCEPT !.notafter = Failed]
      [] f = "d2i" -> [in EXCEPT !.econtent.decode_ok = FALSE]
      [] f = "trailing" -> [in EXCEPT !.econtent.trailing = TRUE]
      [] f = "version" -> [in EXCEPT !.econtent.version_ok = FALSE]
      [] f = "asid" -> [in EXCEPT !.econtent.asid_ok = FALSE]
      [] f = "inherit" -> [in EXCEPT !.inherits = TRUE]
      [] f = "cert" -> [in EXCEPT !.cert = NULL]
      [] f = "asz" -> [in EXCEPT !.cert.asz = 0]
      [] f = "ipsz" -> [in EXCEPT !.cert.ipsz = 1]

SeqsUpTo(S, n) == UNION {[1..k -> S] : k \in 0..n}

V4Encs == {Enc(V4_10_8), Enc(V4_10_16), Enc(V4_10_1_16)}
V6Encs == {Enc(V6_DB8_32), Enc(V6_DB8_1_48)}

Block(afi, encs) == [afi_ok |-> TRUE, afi |-> afi, prefixes |-> encs]

Blocks ==
    {Block(AFI_IPV4, l) : l \in SeqsUpTo(V4Encs, MaxBlockLen)}
    \cup {Block(AFI_IPV6, l) : l \in SeqsUpTo(V6Encs, MaxBlockLen)}
    \cup {[afi_ok |-> FALSE, afi |-> 0, prefixes |-> <<Enc(V4_10_8)>>],
          Block(AFI_IPV4, <<BadEnc>>)}

\* blocks that show each fault of spl_parse on an accepted and on a
\* rejected eContent
FewBlockSeqs ==
    {<<>>,
     <<Block(AFI_IPV4, <<Enc(V4_10_8), Enc(V4_10_1_16)>>),
       Block(AFI_IPV6, <<Enc(V6_DB8_32)>>)>>,
     <<Block(AFI_IPV6, <<Enc(V6_DB8_32)>>),
       Block(AFI_IPV4, <<Enc(V4_10_8)>>)>>}

\* the blocks of the sequences longer than the two spl.c:164 allows
LongBlocks ==
    {Block(AFI_IPV4, <<Enc(V4_10_8)>>), Block(AFI_IPV6, <<Enc(V6_DB8_32)>>),
     Block(AFI_IPV4, <<>>),
     Block(AFI_IPV4, <<Enc(V4_10_8), Enc(V4_10_1_16)>>)}

\* every sequence of at most two blocks, and the longer ones of LongBlocks
BlockSeqs ==
    SeqsUpTo(Blocks, 2) \cup UNION {[1..k -> LongBlocks] : k \in 3..MaxBlocks}

OneShotInputs ==
    {WithFault(GoodObject(b, v), f) :
        b \in FewBlockSeqs, v \in {0, 1}, f \in Faults}
    \cup {GoodObject(b, 1) : b \in BlockSeqs}

\* blocks of n4 IPv4 and n6 IPv6 prefixes, each in increasing order
V4Run(n) == [k \in 1..n |-> Enc(ip4(10, k, 0, 0, 16))]
V6Run(n) == [k \in 1..n |->
                Enc(ip6(<<0, 0, 0, k, 0, 0, 0, 0, 0, 0, 0, 0>>, 48))]
SizedBlocks(n4, n6) ==
    (IF n4 > 0 THEN <<Block(AFI_IPV4, V4Run(n4))>> ELSE <<>>)
    \o (IF n6 > 0 THEN <<Block(AFI_IPV6, V6Run(n6))>> ELSE <<>>)

SizedInputs ==
    {WithFault(GoodObject(SizedBlocks(n4, n6), 1), f) :
        n4 \in {0, MAX_IP_SIZE - 2, MAX_IP_SIZE - 1, MAX_IP_SIZE},
        n6 \in {0, 1}, f \in {"none", "cms"}}

(***************************************************************************)
(* SpecParse: one object, drawn at the start, is parsed.                   *)
(* SpecObjects: a run of objects is parsed one after the other.            *)
(***************************************************************************)
InitParse ==
    /\ tree = {}
    /\ stats = [k \in StatKeys |-> 0]
    /\ call = NoCall
    /\ hist = {}
    /\ ncalls = 0
    /\ pin \in OneShotInputs
    /\ parsed = NULL
    /\ accum = 0
    /\ nparsed = 0
    /\ sent = NULL
    /\ ibuf = <<>>
    /\ rcvd = NULL

ParseGiven == nparsed = 0 /\ spl_parse_call(pin)

NextParse == ParseGiven

SpecParse == InitParse /\ [][NextParse]_vars

ParseObject ==
    /\ nparsed < MaxObjects
    /\ \E in \in SizedInputs : spl_parse_call(in)

NextObjects == ParseObject

SpecObjects == Init /\ [][NextObjects]_vars

(***************************************************************************)
(* Properties of the parser.                                               *)
(***************************************************************************)
RECURSIVE Flatten(_, _)
Flatten(blocks, i) ==
    IF i > Len(blocks) THEN <<>>
    ELSE [k \in 1..Len(blocks[i].prefixes) |->
             spl_pfx(blocks[i].afi, blocks[i].prefixes[k].ip)]
         \o Flatten(blocks, i + 1)

RECURSIVE TotalPrefixes(_, _)
TotalPrefixes(blocks, i) ==
    IF i > Len(blocks) THEN 0
    ELSE Len(blocks[i].prefixes) + TotalPrefixes(blocks, i + 1)

Returned == nparsed > 0 /\ parsed # NULL
Rejected == nparsed > 0 /\ parsed = NULL

\* C5: on success the prefix list is the blocks' prefixes flattened in
\* input order, every IPv4 entry precedes every IPv6 entry, and within a
\* family each entry is strictly greater under prefix_cmp than the one
\* before it.
C5_ParsedSorted ==
    Returned =>
        /\ parsed.pfxs = Flatten(pin.econtent.blocks, 1)
        /\ parsed.pfxsz = Len(parsed.pfxs)
        /\ StrictlyIncreasing(parsed.pfxs)
        /\ Grouped(parsed.pfxs)
        /\ \A k \in 1..(parsed.pfxsz - 1) :
               parsed.pfxs[k].afi = parsed.pfxs[k + 1].afi =>
                   /\ parsed.pfxs[k].prefix # parsed.pfxs[k + 1].prefix
                   /\ prefix_cmp(parsed.pfxs[k].afi, parsed.pfxs[k].prefix,
                                 parsed.pfxs[k + 1].prefix) = -1

\* an accepted object of an IPv4 block of two prefixes and an IPv6 block
C5_Witness ==
    /\ Returned
    /\ Len(pin.econtent.blocks) = 2
    /\ Len(pin.econtent.blocks[1].prefixes) = 2
    /\ parsed.pfxsz = 3
    /\ parsed.pfxs[1].afi = AFI_IPV4
    /\ parsed.pfxs[3].afi = AFI_IPV6

SameFamilyTwice(blocks) ==
    \E i, j \in 1..Len(blocks) :
        i # j /\ blocks[i].afi_ok /\ blocks[j].afi_ok
              /\ blocks[i].afi = blocks[j].afi

V6BeforeV4(blocks) ==
    \E i, j \in 1..Len(blocks) :
        /\ i < j
        /\ blocks[i].afi_ok /\ blocks[i].afi = AFI_IPV6
        /\ blocks[j].afi_ok /\ blocks[j].afi = AFI_IPV4

EmptyBlock(blocks) == \E i \in 1..Len(blocks) : Len(blocks[i].prefixes) = 0

\* some prefix of some block is equal to, or sorts before, the one before it
NotIncreasing(blocks) ==
    \E i \in 1..Len(blocks) :
        \E k \in 1..(Len(blocks[i].prefixes) - 1) :
            LET a == blocks[i].prefixes[k].ip
                b == blocks[i].prefixes[k + 1].ip
                n == IF blocks[i].afi = AFI_IPV4 THEN 4 ELSE 16
            IN  \/ a = b
                \/ memcmp(a.addr, b.addr, n) > 0
                \/ (memcmp(a.addr, b.addr, n) = 0
                        /\ a.prefixlen >= b.prefixlen)

\* C6: the object is rejected when it has more than two blocks, the same
\* family in two blocks, an IPv6 block before an IPv4 block, a block with
\* no prefixes, or a block with a prefix not strictly greater than the one
\* before it.
C6_Rejections ==
    (nparsed > 0 /\ ( \/ Len(pin.econtent.blocks) > 2
                      \/ SameFamilyTwice(pin.econtent.blocks)
                      \/ V6BeforeV4(pin.econtent.blocks)
                      \/ EmptyBlock(pin.econtent.blocks)
                      \/ NotIncreasing(pin.econtent.blocks) ))
        => parsed = NULL

\* an object whose only flaw is the IPv6 block standing before the IPv4
\* block has been rejected
C6_Witness ==
    /\ Rejected
    /\ pin = GoodObject(pin.econtent.blocks, 1)
    /\ Len(pin.econtent.blocks) = 2
    /\ V6BeforeV4(pin.econtent.blocks)
    /\ ~EmptyBlock(pin.econtent.blocks)
    /\ ~NotIncreasing(pin.econtent.blocks)
    /\ \A i \in 1..2 :
           /\ pin.econtent.blocks[i].afi_ok
           /\ \A k \in 1..Len(pin.econtent.blocks[i].prefixes) :
                  pin.econtent.blocks[i].prefixes[k].ok

\* the eContent contract of steps 4: decoded, well-formed and in order
EcontentPasses(ec) ==
    /\ ec.decode_ok /\ ~ec.trailing /\ ec.version_ok /\ ec.asid_ok
    /\ Len(ec.blocks) <= 2
    /\ ~SameFamilyTwice(ec.blocks)
    /\ ~V6BeforeV4(ec.blocks)
    /\ ~EmptyBlock(ec.blocks)
    /\ ~NotIncreasing(ec.blocks)
    /\ TotalPrefixes(ec.blocks, 1) < MAX_IP_SIZE
    /\ \A i \in 1..Len(ec.blocks) :
           /\ ec.blocks[i].afi_ok
           /\ \A k \in 1..Len(ec.blocks[i].prefixes) :
                  ec.blocks[i].prefixes[k].ok

\* steps 1 to 6 of the object builder
Steps1to6(in) ==
    /\ in.cms_ok
    /\ \A id \in {in.aia, in.aki, in.sia, in.ski} : id.ok /\ id.val # NULL
    /\ in.notbefore.ok /\ in.notafter.ok
    /\ EcontentPasses(in.econtent)
    /\ ~in.inherits
    /\ in.cert # NULL /\ in.cert.asz > 0 /\ in.cert.ipsz = 0

\* C8: spl_parse returns a record exactly when steps 1 to 6 pass; the
\* policy check decides only the valid flag of the record returned.
C8_PolicyNeverRejects ==
    nparsed > 0 =>
        /\ (parsed # NULL) <=> Steps1to6(pin)
        /\ parsed # NULL => parsed.valid = pin.valid_spl

\* an object that failed the policy check has been returned, marked invalid
C8_Witness ==
    /\ Returned
    /\ pin.valid_spl = 0
    /\ parsed.valid = 0
    /\ parsed.pfxsz = 3

\* C9 as stated: the prefixes accepted from all the objects processed so
\* far stay under the ceiling.
C9_AccumulatedUnderCeiling == accum < MAX_IP_SIZE

\* C9 as amended: the count of one object, over all its blocks, stays
\* under the ceiling; an object whose blocks reach it is rejected; what
\* earlier objects brought is not counted.
C9_ObjectUnderCeiling ==
    nparsed > 0 =>
        /\ parsed # NULL => parsed.pfxsz < MAX_IP_SIZE
        /\ TotalPrefixes(pin.econtent.blocks, 1) >= MAX_IP_SIZE
               => parsed = NULL
        /\ (Steps1to6(pin) /\ parsed # NULL) =>
               parsed.pfxsz = TotalPrefixes(pin.econtent.blocks, 1)

\* a second object of the largest accepted size is returned although the
\* objects before it already brought the total to the ceiling
C9_Witness ==
    /\ nparsed >= 2
    /\ Returned
    /\ parsed.pfxsz = MAX_IP_SIZE - 1
    /\ Len(pin.econtent.blocks) = 2
    /\ accum - parsed.pfxsz > 0
    /\ accum >= MAX_IP_SIZE

(***************************************************************************)
(* The codec, spl.c:341-386.  A struct ibuf is the sequence of the items   *)
(* written to it: one item per scalar, per struct spl_pfx and per byte of  *)
(* a string.  A string travels as its length followed by its bytes, an     *)
(* absent string as the length 0 (io.c).                                   *)
(***************************************************************************)
Abort == [abort |-> TRUE]

io_str_buffer(b, p) ==
    IF p = NULL THEN b \o <<0>> ELSE b \o <<Len(p.bytes)>> \o p.bytes

\* the string at the head of b and what follows it, or Abort
io_read_str(b) ==
    IF Len(b) < 1 THEN Abort
    ELSE IF b[1] = 0 THEN [val |-> NULL, rest |-> Tail(b)]
    ELSE IF Len(b) < 1 + b[1] THEN Abort
    ELSE [val |-> Str(SubSeq(b, 2, 1 + b[1])),
          rest |-> SubSeq(b, 2 + b[1], Len(b))]

spl_buffer(b, s) ==
    LET b1 == b \o <<s.valid, s.asid, s.talid, s.pfxsz, s.expires>>
        b2 == b1 \o SubSeq(s.pfxs, 1, s.pfxsz)
    IN  io_str_buffer(io_str_buffer(io_str_buffer(b2, s.aia), s.aki), s.ski)

\* what the three io_read_str calls and the assert of spl.c:380-383 leave
ReadStrings(s, b, first, second, third) ==
    LET r1 == io_read_str(b)
    IN  IF r1 = Abort THEN Abort
        ELSE LET r2 == io_read_str(r1.rest)
             IN  IF r2 = Abort THEN Abort
                 ELSE LET r3 == io_read_str(r2.rest)
                      IN  IF r3 = Abort THEN Abort
                          ELSE IF r1.val = NULL \/ r2.val = NULL
                                  \/ r3.val = NULL
                          THEN Abort
                          ELSE [spl |-> [s EXCEPT ![first] = r1.val,
                                                  ![second] = r2.val,
                                                  ![third] = r3.val],
                                rest |-> r3.rest]

\* spl_read taking the authority and subject key ids in the other order
spl_read_swapped(b) ==
    IF Len(b) < 5 THEN Abort
    ELSE LET s1 == [ZeroSpl EXCEPT !.valid = b[1], !.asid = b[2],
                                   !.talid = b[3], !.pfxsz = b[4],
                                   !.expires = b[5]]
         IN  IF Len(b) < 5 + s1.pfxsz THEN Abort
             ELSE ReadStrings([s1 EXCEPT !.pfxs = SubSeq(b, 6, 5 + s1.pfxsz)],
                              SubSeq(b, 6 + s1.pfxsz, Len(b)),
                              "aia", "ski", "aki")

\* the struct spl read and the rest of the buffer, or Abort
spl_read(b) ==
    IF Len(b) < 5 THEN Abort
    ELSE LET s1 == [ZeroSpl EXCEPT !.valid = b[1], !.asid = b[2],
                                   !.talid = b[3], !.pfxsz = b[4],
                                   !.expires = b[5]]
         IN  IF Len(b) < 5 + s1.pfxsz THEN Abort
             ELSE ReadStrings([s1 EXCEPT !.pfxs = SubSeq(b, 6, 5 + s1.pfxsz)],
                              SubSeq(b, 6 + s1.pfxsz, Len(b)),
                              "aia", "aki", "ski")

\* the parser process writes the record
Buffer ==
    /\ sent # NULL
    /\ ibuf = <<>>
    /\ rcvd = NULL
    /\ ibuf' = spl_buffer(ibuf, sent)
    /\ UNCHANGED <<sent, rcvd, vspVars, parseVars>>

\* the main process reads it
Read ==
    /\ ibuf # <<>>
    /\ rcvd = NULL
    /\ LET r == spl_read(ibuf)
       IN  IF r = Abort
           THEN rcvd' = Abort /\ ibuf' = ibuf
           ELSE rcvd' = r.spl /\ ibuf' = r.rest
    /\ UNCHANGED <<sent, vspVars, parseVars>>

\* the records handed to spl_buffer: what spl_parse returns, with the trust
\* anchor id and the expiration its caller fills in
CodecStrings == {Str(<<114, 115>>), Str(<<65>>)}
CodecLists ==
    {<<>>, <<spl_pfx(AFI_IPV4, V4_10_8)>>,
     <<spl_pfx(AFI_IPV4, V4_10_8), spl_pfx(AFI_IPV6, V6_DB8_32)>>}

CodecInputs ==
    {[ZeroSpl EXCEPT !.valid = v, !.asid = a, !.talid = t, !.expires = e,
                     !.pfxs = l, !.pfxsz = Len(l), !.aia = s1, !.aki = s2,
                     !.ski = s3, !.sia = Str(<<114>>), !.notafter = e] :
        v \in {0, 1}, a \in {0, 64496}, t \in {0, 1}, e \in {0, 100},
        l \in CodecLists, s1 \in CodecStrings, s2 \in CodecStrings,
        s3 \in CodecStrings}

InitCodec ==
    /\ tree = {}
    /\ stats = [k \in StatKeys |-> 0]
    /\ call = NoCall
    /\ hist = {}
    /\ ncalls = 0
    /\ pin = NULL
    /\ parsed = NULL
    /\ accum = 0
    /\ nparsed = 0
    /\ sent \in CodecInputs
    /\ ibuf = <<>>
    /\ rcvd = NULL

NextCodec == Buffer \/ Read

SpecCodec == InitCodec /\ [][NextCodec]_vars

\* C7: reading what spl_buffer wrote for a record with its three strings
\* present gives a record equal to it in the valid flag, AS id, trust
\* anchor id, prefix count, expiration, prefix list and the three strings,
\* the fields being written in that order and the buffer read to its end.
C7_RoundTrip ==
    /\ (ibuf # <<>> /\ rcvd = NULL) =>
           /\ SubSeq(ibuf, 1, 5) = <<sent.valid, sent.asid, sent.talid,
                                     sent.pfxsz, sent.expires>>
           /\ SubSeq(ibuf, 6, 5 + sent.pfxsz) = sent.pfxs
           /\ Len(ibuf) = 5 + sent.pfxsz + 3 + Len(sent.aia.bytes)
                              + Len(sent.aki.bytes) + Len(sent.ski.bytes)
    /\ rcvd # NULL =>
           /\ rcvd # Abort
           /\ ibuf = <<>>
           /\ rcvd.valid = sent.valid
           /\ rcvd.asid = sent.asid
           /\ rcvd.talid = sent.talid
           /\ rcvd.pfxsz = sent.pfxsz
           /\ rcvd.expires = sent.expires
           /\ rcvd.pfxs = sent.pfxs
           /\ rcvd.aia = sent.aia
           /\ rcvd.aki = sent.aki
           /\ rcvd.ski = sent.ski

\* a record of two prefixes and three different strings has been read back
C7_Witness ==
    /\ rcvd # NULL
    /\ rcvd # Abort
    /\ rcvd.pfxsz = 2
    /\ rcvd.valid = 1
    /\ rcvd.aki # rcvd.ski
    /\ rcvd.aia # rcvd.aki
    /\ rcvd.expires = 100
    /\ rcvd.sia = NULL
====
